---- MODULE Spec2Model ----
(***************************************************************************)
(* Frame extraction (extract_frames.py) and frame sampling                 *)
(* (analyze_frames.py) of the bilibili-analyzer skill, as one state        *)
(* machine: a file system holding a video and an output directory, and a   *)
(* sequence of command-line runs of the two scripts against it.            *)
(*                                                                         *)
(* Conventions.  A Python dict is a TLA+ record (its keys are its DOMAIN). *)
(* A command-line argument is a sequence of one-character strings, so that *)
(* int() is modelled by what it parses.  A frame file is a record          *)
(* [prefix, digits]: the name the engine's %04d pattern formats.  A        *)
(* duration is a tagged record in tenths of a second.                      *)
(***************************************************************************)
EXTENDS Integers, Sequences, FiniteSets, TLC

\* ------------------------------------------------------------------ bounds
\* Number of command-line runs in one behaviour.
MaxRuns == 2
\* The engine may write any number of frames; the model draws the number from
\* 0..SmallFrames, MidFrames, and MaxSceneFrames..MaxSceneFrames+OverFrames.
SmallFrames == 6
MidFrames == 17
OverFrames == 1
\* Frames a failing engine run may have written before it failed: 0..PartialFrames.
PartialFrames == 1
\* At most this many of the selected frames are unreadable in one sampler run.
MaxUnreadable == 2

\* ------------------------------------------------------- program constants
\* extract_frames.py:203   result.get('frame_count', 0) < 5
MinSceneFrames == 5
\* extract_frames.py:203   result.get('frame_count', 0) > 50
MaxSceneFrames == 50
\* extract_frames.py:207   max(10, ...)
MinInterval == 10
\* extract_frames.py:207   int(duration / 30)
TargetFrames == 30
\* extract_frames.py:93    threshold=0.3, in tenths
DefaultThresholdTenths == 3
\* analyze_frames.py:19    sample_count=8
DefaultSampleCount == 8
\* extract_frames.py:44    'frame_%04d.jpg': the minimum width of the number
PadWidth == 4

\* ---------------------------------------------------------------- strings
Auto == <<"a", "u", "t", "o">>
DigitChars == <<"0", "1", "2", "3", "4", "5", "6", "7", "8", "9">>
IsDigit(c) == \E i \in 1..Len(DigitChars) : DigitChars[i] = c
DigitVal(c) == (CHOOSE i \in 1..Len(DigitChars) : DigitChars[i] = c) - 1

\* str.strip(): leading and trailing blanks removed.
RECURSIVE Strip(_)
Strip(s) ==
  IF s = <<>> THEN s
  ELSE IF Head(s) = " " THEN Strip(Tail(s))
  ELSE IF s[Len(s)] = " " THEN Strip(SubSeq(s, 1, Len(s) - 1))
  ELSE s

RECURSIVE DigitsValue(_, _)
DigitsValue(s, acc) ==
  IF s = <<>> THEN acc ELSE DigitsValue(Tail(s), acc * Len(DigitChars) + DigitVal(Head(s)))

\* Python's int(str): blanks stripped, an optional sign, then one or more
\* decimal digits; anything else raises ValueError.
ParseInt(str) ==
  LET s == Strip(str)
      signed == s # <<>> /\ Head(s) \in {"+", "-"}
      body == IF signed THEN Tail(s) ELSE s
  IN IF body # <<>> /\ \A i \in 1..Len(body) : IsDigit(body[i])
     THEN [ok |-> TRUE,
           val |-> IF signed /\ Head(s) = "-" THEN 0 - DigitsValue(body, 0)
                   ELSE DigitsValue(body, 0)]
     ELSE [ok |-> FALSE, val |-> 0]

\* ------------------------------------------------------------- file names
RECURSIVE DecimalDigits(_)
DecimalDigits(n) ==
  IF n < Len(DigitChars) THEN <<n>>
  ELSE Append(DecimalDigits(n \div Len(DigitChars)), n % Len(DigitChars))

RECURSIVE ZeroPad(_, _)
ZeroPad(ds, width) == IF Len(ds) >= width THEN ds ELSE ZeroPad(<<0>> \o ds, width)

\* The engine's output pattern '<prefix>%04d.jpg' for sequence number n.
FrameName(prefix, n) == [prefix |-> prefix, digits |-> ZeroPad(DecimalDigits(n), PadWidth)]

\* Lexicographic order of two digit strings.
RECURSIVE LexLess(_, _)
LexLess(a, b) ==
  IF b = <<>> THEN FALSE
  ELSE IF a = <<>> THEN TRUE
  ELSE IF Head(a) # Head(b) THEN Head(a) < Head(b)
  ELSE LexLess(Tail(a), Tail(b))

PathLess(f, g) == LexLess(f.digits, g.digits)

RECURSIVE SetToSeq(_)
SetToSeq(S) ==
  IF S = {} THEN <<>>
  ELSE LET x == CHOOSE y \in S : TRUE IN <<x>> \o SetToSeq(S \ {x})

\* sorted(Path(dir).glob('<prefix>*.jpg')): the matching files, by name.
SortedGlob(dirFiles, prefix) ==
  SortSeq(SetToSeq({f \in dirFiles : f.prefix = prefix}), PathLess)

\* ------------------------------------------------------------ environment
VideoPath == <<"v", "i", "d", "e", "o">>
MissingPath == <<"n", "o", "n", "e">>
OutDir == <<"o", "u", "t">>
\* The video files that exist: os.path.exists(video_path).
ExistingPaths == {VideoPath}

\* Numbers of frames one successful engine run may write.
FrameCounts ==
  (0..SmallFrames) \cup {MidFrames} \cup (MaxSceneFrames..(MaxSceneFrames + OverFrames))

None == [kind |-> "None", tenths |-> 0]
NaN == [kind |-> "nan", tenths |-> 0]
Float(t) == [kind |-> "float", tenths |-> t]

\* Python's float(str) on the texts the probe can print: blanks stripped, 'nan',
\* or an optional sign, digits, and at most one decimal digit (the model's
\* resolution is a tenth of a second); anything else raises ValueError.
ParseFloat(str) ==
  LET s == Strip(str)
      signed == s # <<>> /\ Head(s) \in {"+", "-"}
      body == IF signed THEN Tail(s) ELSE s
      dots == {i \in 1..Len(body) : body[i] = "."}
      whole == IF dots = {} THEN body ELSE SubSeq(body, 1, Len(body) - 2)
      frac == IF dots = {} THEN <<"0">> ELSE SubSeq(body, Len(body), Len(body))
      tenths == DigitsValue(whole \o frac, 0)
  IN IF s = <<"n", "a", "n">> THEN [ok |-> TRUE, val |-> NaN]
     ELSE IF /\ body # <<>>
             /\ dots \in {{}, {Len(body) - 1}}
             /\ whole # <<>>
             /\ \A i \in 1..Len(whole) : IsDigit(whole[i])
             /\ IsDigit(frac[1])
     THEN [ok |-> TRUE,
           val |-> Float(IF signed /\ Head(s) = "-" THEN 0 - tenths ELSE tenths)]
     ELSE [ok |-> FALSE, val |-> None]

\* What the probe may do: fail to run (binary missing, nonzero exit), or print
\* one of these texts: "N/A", "nan", "0.0", "0.5", "329.9", "330.0", "900.0 ".
ProbeTexts ==
  { <<"N", "/", "A">>, <<"n", "a", "n">>, <<"0", ".", "0">>, <<"0", ".", "5">>,
    <<"3", "2", "9", ".", "9">>, <<"3", "3", "0", ".", "0">>,
    <<"9", "0", "0", ".", "0", " ">> }
ProbeRuns ==
  {[raised |-> "Exception", text |-> <<>>]} \cup {[raised |-> "none", text |-> t] : t \in ProbeTexts}

\* get_ffmpeg_path's candidate locations, in order.
Candidates == <<"ffmpeg", "~/bin/ffmpeg", "/usr/local/bin/ffmpeg", "/opt/homebrew/bin/ffmpeg">>
\* Where a working engine may be installed at the time of a call.
Installs == {{}, {"ffmpeg"}, {"/usr/local/bin/ffmpeg", "/opt/homebrew/bin/ffmpeg"}}

\* What subprocess.run(cmd, check=True) may do, given the resolved binary:
\* a missing binary raises FileNotFoundError; a present one exits 0 having
\* written n frames, exits nonzero having written a few, or fails otherwise.
EngineRuns(ffmpeg, installed) ==
  IF ffmpeg \notin installed
  THEN {[raised |-> "FileNotFoundError", wrote |-> 0]}
  ELSE {[raised |-> "none", wrote |-> n] : n \in FrameCounts}
       \cup {[raised |-> "CalledProcessError", wrote |-> n] : n \in 0..PartialFrames}
       \cup {[raised |-> "Exception", wrote |-> 0]}

\* os.makedirs(output_dir, exist_ok=True): may fail only when it has to create.
MakedirsOutcomes(exists) == IF exists THEN {"ok"} ELSE {"ok", "OSError"}

\* The files an engine run writing n frames leaves: '-y' overwrites in place.
Written(prefix, n) == {FrameName(prefix, i) : i \in 1..n}

\* ------------------------------------------------------------------ state
VARIABLES
  dirExists,    \* the output directory exists
  files,        \* the files in the output directory
  pc,           \* position of the running script
  script,       \* "extract", "analyze" or "none"
  runs,         \* command-line runs started so far
  video_path,   \* extract: sys.argv[1], once main has read it
  startedEmpty, \* history: the output directory held no file when this run started
  prev,         \* history: how the previous run went (RunSummary)
  mode,         \* extract: sys.argv[3] or 'auto'
  interval,     \* extract: the interval passed to extract_frames_interval
  duration,     \* extract: what get_video_duration returned
  sample_count, \* analyze: the parsed sample count
  result,       \* the dict held in main's `result`
  selected,     \* analyze: selected_frames
  unreadable,   \* analyze: the selected frames whose read raised
  calls,        \* this run's calls, in order: [fn, arg, ret]
  stdout,       \* what the run printed on standard output
  stderr,       \* what the run printed on standard error
  exitCode      \* the run's exit status; -1 while it runs

vars == <<dirExists, files, pc, script, runs, video_path, startedEmpty, prev, mode, interval, duration, sample_count,
          result, selected, unreadable, calls, stdout, stderr, exitCode>>

NoResult == [unset |-> TRUE]
Get(d, key, default) == IF key \in DOMAIN d THEN d[key] ELSE default
Json(obj) == [kind |-> "json", obj |-> obj]
Text(line) == [kind |-> "text", obj |-> [line |-> line]]
Traceback(exc) == [kind |-> "traceback", obj |-> [exception |-> exc]]
\* A call in the log: the callee, its numeric argument (the interval, the
\* threshold, the sample count; else 0) and what it returned or raised.  Calls
\* are logged in the order they are entered.
Call(fn, arg, ret) == [fn |-> fn, arg |-> arg, ret |-> ret]
Raised(exc) == [raised |-> exc]

Init ==
  /\ dirExists \in BOOLEAN
  /\ files = {}
  /\ pc = "idle"
  /\ script = "none"
  /\ runs = 0
  /\ video_path = <<>>
  /\ startedEmpty = TRUE
  /\ prev = "other"
  /\ mode = <<>>
  /\ interval = 0
  /\ duration = None
  /\ sample_count = 0
  /\ result = NoResult
  /\ selected = <<>>
  /\ unreadable = {}
  /\ calls = <<>>
  /\ stdout = <<>>
  /\ stderr = <<>>
  /\ exitCode = 0 - 1

\* ------------------------------------------------------ extract_frames.py
RECURSIVE FirstWorking(_, _)
FirstWorking(paths, installed) ==
  IF paths = <<>> THEN "ffmpeg"
  ELSE IF Head(paths) \in installed THEN Head(paths)
  ELSE FirstWorking(Tail(paths), installed)

\* get_ffmpeg_path(): the first candidate whose '-version' run succeeds, else 'ffmpeg'.
get_ffmpeg_path(installed) == FirstWorking(Candidates, installed)

ErrorResult(raised) ==
  CASE raised = "CalledProcessError" ->
         [error |-> "Frame extraction failed", details |-> "e.stderr"]
    [] raised = "FileNotFoundError" ->
         [error |-> "ffmpeg not found", details |-> "Please install ffmpeg"]
    [] OTHER ->
         [error |-> "Unexpected error", details |-> "str(e)"]

\* extract_frames_interval(video_path, output_dir, interval), the engine's run
\* `run` given: the directory afterwards and the dict returned.
extract_frames_interval(dirFiles, intv, run) ==
  LET after == dirFiles \cup Written("frame_", run.wrote)
      frame_paths == SortedGlob(after, "frame_")
  IN [files |-> after,
      ret |-> IF run.raised = "none"
              THEN [success |-> TRUE, method |-> "interval", interval |-> intv,
                    frame_count |-> Len(frame_paths), frames |-> frame_paths]
              ELSE ErrorResult(run.raised)]

\* extract_frames_scene writing and listing under the interval prefix 'frame_'.
extract_frames_scene_as_frames(dirFiles, threshold, run) ==
  LET after == dirFiles \cup Written("frame_", run.wrote)
      frame_paths == SortedGlob(after, "frame_")
  IN [files |-> after,
      ret |-> IF run.raised = "none"
              THEN [success |-> TRUE, method |-> "scene_detection", threshold |-> threshold,
                    frame_count |-> Len(frame_paths), frames |-> frame_paths]
              ELSE ErrorResult(run.raised)]

\* extract_frames_scene(video_path, output_dir, threshold=0.3), likewise.
extract_frames_scene(dirFiles, threshold, run) ==
  LET after == dirFiles \cup Written("scene_", run.wrote)
      frame_paths == SortedGlob(after, "scene_")
  IN [files |-> after,
      ret |-> IF run.raised = "none"
              THEN [success |-> TRUE, method |-> "scene_detection", threshold |-> threshold,
                    frame_count |-> Len(frame_paths), frames |-> frame_paths]
              ELSE ErrorResult(run.raised)]

\* int(x) of a float quotient a / b (b > 0): truncation toward zero.
TruncDiv(a, b) == IF a >= 0 THEN a \div b ELSE 0 - ((0 - a) \div b)
Max(a, b) == IF a >= b THEN a ELSE b

\* Truthy with an unknown duration taken for a known one.
TruthyUnlessZero(d) == d.kind # "float" \/ d.tenths # 0

\* `if duration:` - None and 0.0 are falsy; every other float, nan included, is truthy.
Truthy(d) == d.kind = "nan" \/ (d.kind = "float" /\ d.tenths # 0)

\* max(10, int(duration / 30)), the duration in tenths of a second.
FallbackInterval(d) == Max(MinInterval, TruncDiv(d.tenths, TargetFrames * 10))

\* NeedsFallback with the band's bounds excluded (>= and <= for > and <).
NeedsFallbackInclusive(res) ==
  Get(res, "frame_count", 0) >= MaxSceneFrames \/ Get(res, "frame_count", 0) <= MinSceneFrames

\* main(): `result.get('frame_count', 0) > 50 or result.get('frame_count', 0) < 5`
NeedsFallback(res) ==
  Get(res, "frame_count", 0) > MaxSceneFrames \/ Get(res, "frame_count", 0) < MinSceneFrames

\* get_video_duration(video_path), the probe's run `run` given.
get_video_duration(run) ==
  IF run.raised = "none" /\ ParseFloat(run.text).ok THEN ParseFloat(run.text).val ELSE None

\* What the caller may pass as sys.argv[3]: auto, "10", "0", "-5", "x", "1.5", " 7".
ModeArgs ==
  { Auto, <<"1", "0">>, <<"0">>, <<"-", "5">>, <<"x">>, <<"1", ".", "5">>, <<" ", "7">> }
ExtractArgvs ==
  {<<>>, <<VideoPath>>, <<VideoPath, OutDir>>, <<MissingPath, OutDir>>}
    \cup {<<v, OutDir, m>> : v \in {VideoPath, MissingPath}, m \in ModeArgs}

\* VideoFound with the existence test left out.
VideoFoundAlways(path) == TRUE

\* main(): os.path.exists(video_path).
VideoFound(path) == path \in ExistingPaths

\* How the run now ending went, for a run of extract_frames.py into a directory
\* that held no file: "scene" when main's final `result` is the one
\* extract_frames_scene returned and main printed it, "interval" when
\* extract_frames_interval was called, "neither" otherwise; "other" for every
\* other run.
RunSummary ==
  IF script # "extract" \/ ~startedEmpty THEN "other"
  ELSE IF exitCode = 0 /\ "method" \in DOMAIN result /\ result.method = "scene_detection"
  THEN "scene"
  ELSE IF \E i \in 1..Len(calls) : calls[i].fn = "extract_frames_interval"
  THEN "interval"
  ELSE "neither"

\* A run starts with the state of a fresh process.
FreshProcess(name) ==
  /\ script' = name
  /\ startedEmpty' = (files = {})
  /\ prev' = RunSummary
  /\ runs' = runs + 1
  /\ calls' = <<>>
  /\ stdout' = <<>>
  /\ selected' = <<>>
  /\ unreadable' = {}
  /\ duration' = None
  /\ interval' = 0

\* An uncaught exception: the interpreter prints a traceback and exits 1.
Uncaught(exc) ==
  /\ stderr' = Append(stderr, Traceback(exc))
  /\ exitCode' = 1
  /\ pc' = "done"

\* main(), from its start to the choice of the extraction method.
ExtractStart ==
  /\ pc \in {"idle", "done"}
  /\ runs < MaxRuns
  /\ \E args \in ExtractArgvs :
       LET m == IF Len(args) > 2 THEN args[3] ELSE Auto
           usage == [error |-> "Missing arguments", usage |-> "python extract_frames.py"]
           missing == [error |-> "Video file not found", path |-> "video_path"]
       IN /\ FreshProcess("extract")
          /\ video_path' = IF Len(args) < 2 THEN <<>> ELSE args[1]
          /\ result' = NoResult
          /\ sample_count' = 0
          /\ mode' = IF Len(args) < 2 THEN <<>> ELSE m
          /\ IF Len(args) < 2
             THEN /\ stderr' = <<Json(usage)>>
                  /\ exitCode' = 1
                  /\ pc' = "done"
             ELSE IF ~VideoFound(args[1])
             THEN /\ stderr' = <<Json(missing)>>
                  /\ exitCode' = 1
                  /\ pc' = "done"
             ELSE /\ stderr' = <<Text("Extracting frames from video_path...")>>
                  /\ exitCode' = 0 - 1
                  /\ pc' = IF m = Auto THEN "scene" ELSE "explicit"
  /\ UNCHANGED <<dirExists, files>>

\* main(), auto mode: extract_frames_scene(video_path, output_dir) and the test
\* of its frame count.
SceneStep ==
  /\ pc = "scene"
  /\ \E mk \in MakedirsOutcomes(dirExists), installed \in Installs :
       \E run \in EngineRuns(get_ffmpeg_path(installed), installed) :
         LET r == extract_frames_scene(files, DefaultThresholdTenths, run)
         IN IF mk = "OSError"
            THEN /\ Uncaught("OSError")
                 /\ calls' = Append(calls, Call("extract_frames_scene",
                                                DefaultThresholdTenths, Raised("OSError")))
                 /\ UNCHANGED <<dirExists, files, result>>
            ELSE /\ dirExists' = TRUE
                 /\ files' = r.files
                 /\ result' = r.ret
                 /\ calls' = calls \o <<Call("extract_frames_scene", DefaultThresholdTenths, r.ret),
                                       Call("get_ffmpeg_path", 0, NoResult),
                                       Call("engine", DefaultThresholdTenths, run)>>
                 /\ pc' = IF NeedsFallback(r.ret) THEN "probe" ELSE "report"
                 /\ UNCHANGED <<stderr, exitCode>>
  /\ UNCHANGED <<script, runs, video_path, startedEmpty, prev, mode, interval, duration, sample_count, selected,
                 unreadable, stdout>>

\* main(), auto mode: get_video_duration(video_path), `if duration:` and the
\* fallback interval.
ProbeStep ==
  /\ pc = "probe"
  /\ \E run \in ProbeRuns :
       LET d == get_video_duration(run)
       IN /\ duration' = d
          /\ calls' = calls \o <<Call("get_video_duration", 0, d),
                                 Call("get_ffmpeg_path", 0, NoResult),
                                 Call("ffprobe", 0, run)>>
          /\ IF ~Truthy(d)
             THEN /\ pc' = "report"
                  /\ UNCHANGED <<interval, stderr, exitCode>>
             ELSE IF d.kind = "nan"
             THEN /\ Uncaught("ValueError")
                  /\ UNCHANGED interval
             ELSE /\ interval' = FallbackInterval(d)
                  /\ pc' = "fallback"
                  /\ UNCHANGED <<stderr, exitCode>>
  /\ UNCHANGED <<dirExists, files, script, runs, video_path, startedEmpty, prev, mode, sample_count, result, selected,
                 unreadable, stdout>>

\* A call of extract_frames_interval from main(), with what it leaves behind.
IntervalCall(intv, next) ==
  \E mk \in MakedirsOutcomes(dirExists), installed \in Installs :
    \E run \in EngineRuns(get_ffmpeg_path(installed), installed) :
      LET r == extract_frames_interval(files, intv, run)
      IN IF mk = "OSError"
         THEN /\ Uncaught("OSError")
              /\ calls' = Append(calls, Call("extract_frames_interval", intv, Raised("OSError")))
              /\ UNCHANGED <<dirExists, files, result>>
         ELSE /\ dirExists' = TRUE
              /\ files' = r.files
              /\ result' = r.ret
              /\ calls' = calls \o <<Call("extract_frames_interval", intv, r.ret),
                                    Call("get_ffmpeg_path", 0, NoResult),
                                    Call("engine", intv, run)>>
              /\ pc' = next
              /\ UNCHANGED <<stderr, exitCode>>

\* main(), auto mode: result = extract_frames_interval(video_path, output_dir, interval).
FallbackStep ==
  /\ pc = "fallback"
  /\ IntervalCall(interval, "report")
  /\ UNCHANGED <<script, runs, video_path, startedEmpty, prev, mode, interval, duration, sample_count, selected,
                 unreadable, stdout>>

\* main(), explicit mode: int(mode), then extract_frames_interval, ValueError caught.
ExplicitStep ==
  /\ pc = "explicit"
  /\ LET parsed == ParseInt(mode)
         invalid == [error |-> "Invalid interval",
                     details |-> "Interval must be a number or auto"]
     IN IF parsed.ok
        THEN /\ interval' = parsed.val
             /\ IntervalCall(parsed.val, "report")
        ELSE /\ stderr' = Append(stderr, Json(invalid))
             /\ exitCode' = 1
             /\ pc' = "done"
             /\ UNCHANGED <<dirExists, files, result, calls, interval>>
  /\ UNCHANGED <<script, runs, video_path, startedEmpty, prev, mode, duration, sample_count, selected, unreadable, stdout>>

\* main(): the error test on `result` and the final print.
ExtractReport ==
  /\ pc = "report"
  /\ script = "extract"
  /\ IF "error" \in DOMAIN result
     THEN /\ stderr' = Append(stderr, Json(result))
          /\ exitCode' = 1
          /\ UNCHANGED stdout
     ELSE /\ stdout' = Append(stdout, Json(result))
          /\ exitCode' = 0
          /\ UNCHANGED stderr
  /\ pc' = "done"
  /\ UNCHANGED <<dirExists, files, script, runs, video_path, startedEmpty, prev, mode, interval, duration, sample_count,
                 result, selected, unreadable, calls>>

\* ------------------------------------------------------ analyze_frames.py
\* What the caller may pass as sys.argv[2]: "1", "2", "3", "0", "-1", "x".
CountArgs == { <<"1">>, <<"2">>, <<"3">>, <<"0">>, <<"-", "1">>, <<"x">> }
AnalyzeArgvs == {<<>>, <<OutDir>>} \cup {<<OutDir, c>> : c \in CountArgs}

\* The sets of frames whose read may raise in one run of the sampler.
UnreadableSets(sel) ==
  {bad \in SUBSET {sel[i] : i \in 1..Len(sel)} : Cardinality(bad) <= MaxUnreadable}

\* SelectEvenly with every index one step late: frame_files[(i + 1) * step - 1].
SelectEvenlyShifted(frame_files, k) ==
  LET step == Len(frame_files) \div k
  IN [i \in 1..Max(k, 0) |-> frame_files[i * step]]

\* analyze_frames: `step = total_frames // sample_count` and
\* `[frame_files[i * step] for i in range(sample_count)]` (range of a negative
\* number is empty); Python's indices start at 0.
SelectEvenly(frame_files, k) ==
  LET step == Len(frame_files) \div k
  IN [i \in 1..Max(k, 0) |-> frame_files[(i - 1) * step + 1]]

\* SelectFrames without the `total_frames <= sample_count` case.
SelectFramesNoGuard(frame_files, k) == SelectEvenly(frame_files, k)

\* analyze_frames: the frames selected from the sorted listing.
SelectFrames(frame_files, k) ==
  IF Len(frame_files) <= k THEN frame_files ELSE SelectEvenly(frame_files, k)

\* ReadFrames with the loop left at the first frame whose read raises.
RECURSIVE ReadFramesAbort(_, _)
ReadFramesAbort(sel, bad) ==
  IF sel = <<>> \/ Head(sel) \in bad THEN <<>>
  ELSE <<[name |-> Head(sel), path |-> Head(sel)]>> \o ReadFramesAbort(Tail(sel), bad)

\* analyze_frames: the loop over selected_frames; a frame whose read raises is
\* skipped.  The entry's size and base64_length are not modelled.
RECURSIVE ReadFrames(_, _)
ReadFrames(sel, bad) ==
  IF sel = <<>> THEN <<>>
  ELSE IF Head(sel) \in bad THEN ReadFrames(Tail(sel), bad)
  ELSE <<[name |-> Head(sel), path |-> Head(sel)]>> \o ReadFrames(Tail(sel), bad)

\* analyze_frames: the warning printed for each frame skipped.
RECURSIVE ReadWarnings(_, _)
ReadWarnings(sel, bad) ==
  IF sel = <<>> THEN <<>>
  ELSE IF Head(sel) \in bad
  THEN <<Text("Warning: Failed to process")>> \o ReadWarnings(Tail(sel), bad)
  ELSE ReadWarnings(Tail(sel), bad)

\* PackageFrames with the 'No frames found' failure reused when no frame was read.
PackageFramesGeneric(frame_files, sel, bad) ==
  LET frames_data == ReadFrames(sel, bad)
  IN IF frames_data = <<>>
     THEN [error |-> "No frames found", details |-> "No frame_*.jpg files"]
     ELSE [success |-> TRUE, total_frames |-> Len(frame_files),
           analyzed_frames |-> Len(frames_data), frames |-> frames_data,
           note |-> "Frame data prepared."]

\* analyze_frames(frames_dir, sample_count) from the loop on: the dict returned.
PackageFrames(frame_files, sel, bad) ==
  LET frames_data == ReadFrames(sel, bad)
  IN IF frames_data = <<>>
     THEN [error |-> "Failed to process frames",
           details |-> "Could not read any frame files"]
     ELSE [success |-> TRUE, total_frames |-> Len(frame_files),
           analyzed_frames |-> Len(frames_data), frames |-> frames_data,
           note |-> "Frame data prepared."]

\* main(), up to the call of analyze_frames.
AnalyzeStart ==
  /\ pc \in {"idle", "done"}
  /\ runs < MaxRuns
  /\ \E args \in AnalyzeArgvs :
       LET parsed == IF Len(args) > 1 THEN ParseInt(args[2])
                     ELSE [ok |-> TRUE, val |-> DefaultSampleCount]
           usage == [error |-> "Missing frames directory", usage |-> "python analyze_frames.py"]
       IN /\ FreshProcess("analyze")
          /\ video_path' = <<>>
          /\ result' = NoResult
          /\ mode' = <<>>
          /\ sample_count' = parsed.val
          /\ IF Len(args) < 1
             THEN /\ stderr' = <<Json(usage)>>
                  /\ exitCode' = 1
                  /\ pc' = "done"
             ELSE IF ~parsed.ok
             THEN /\ stderr' = <<Traceback("ValueError")>>
                  /\ exitCode' = 1
                  /\ pc' = "done"
             ELSE /\ stderr' = <<>>
                  /\ exitCode' = 0 - 1
                  /\ pc' = "analyze"
  /\ UNCHANGED <<dirExists, files>>

\* main(): result = analyze_frames(frames_dir, sample_count).
AnalyzeStep ==
  /\ pc = "analyze"
  /\ LET frame_files == SortedGlob(files, "frame_")
         notfound == [error |-> "Frames directory not found",
                      details |-> "Directory does not exist"]
         noframes == [error |-> "No frames found", details |-> "No frame_*.jpg files"]
     IN /\ calls' = Append(calls, Call("analyze_frames", sample_count, NoResult))
        /\ IF ~dirExists
           THEN /\ result' = notfound
                /\ pc' = "report"
                /\ UNCHANGED <<selected, unreadable, stderr, exitCode>>
           ELSE IF frame_files = <<>>
           THEN /\ result' = noframes
                /\ pc' = "report"
                /\ UNCHANGED <<selected, unreadable, stderr, exitCode>>
           ELSE IF Len(frame_files) > sample_count /\ sample_count = 0
           THEN /\ Uncaught("ZeroDivisionError")
                /\ UNCHANGED <<result, selected, unreadable>>
           ELSE \E bad \in UnreadableSets(SelectFrames(frame_files, sample_count)) :
                  /\ selected' = SelectFrames(frame_files, sample_count)
                  /\ unreadable' = bad
                  /\ result' = PackageFrames(frame_files, selected', bad)
                  /\ stderr' = stderr \o ReadWarnings(selected', bad)
                  /\ pc' = "report"
                  /\ UNCHANGED exitCode
  /\ UNCHANGED <<dirExists, files, script, runs, video_path, startedEmpty, prev, mode, interval, duration, sample_count,
                 stdout>>

\* main(): the error test on `result` and the final print.
AnalyzeReport ==
  /\ pc = "report"
  /\ script = "analyze"
  /\ IF "error" \in DOMAIN result
     THEN /\ stderr' = Append(stderr, Json(result))
          /\ exitCode' = 1
          /\ UNCHANGED stdout
     ELSE /\ stdout' = Append(stdout, Json(result))
          /\ exitCode' = 0
          /\ UNCHANGED stderr
  /\ pc' = "done"
  /\ UNCHANGED <<dirExists, files, script, runs, video_path, startedEmpty, prev, mode, interval, duration, sample_count,
                 result, selected, unreadable, calls>>

Next ==
  \/ ExtractStart
  \/ SceneStep
  \/ ProbeStep
  \/ FallbackStep
  \/ ExplicitStep
  \/ ExtractReport
  \/ AnalyzeStart
  \/ AnalyzeStep
  \/ AnalyzeReport

Spec == Init /\ [][Next]_vars

\* ------------------------------------------------------------- properties
\* Positions in this run's call log of the calls of fn.
CallsOf(fn) == {i \in 1..Len(calls) : calls[i].fn = fn}
Called(fn) == CallsOf(fn) # {}
FirstCall(fn) == calls[CHOOSE i \in CallsOf(fn) : \A j \in CallsOf(fn) : i <= j]
Success(res) == "success" \in DOMAIN res
Failure(res) == "error" \in DOMAIN res

\* An auto-mode run whose scene-based extraction has returned.
AutoSceneReturned ==
  /\ script = "extract"
  /\ mode = Auto
  /\ Called("extract_frames_scene")
  /\ "raised" \notin DOMAIN FirstCall("extract_frames_scene").ret
SceneRet == FirstCall("extract_frames_scene").ret
Finished == pc = "done"
Decided == pc \in {"report", "done"}

\* C1: in auto mode, when the Scene-Change Extractor returns an error result,
\* that failure is the final result and neither the Duration Probe nor the
\* Interval Extractor is invoked afterwards.
C1_SceneFailurePropagates ==
  (AutoSceneReturned /\ Failure(SceneRet)) =>
    /\ ~Called("get_video_duration")
    /\ ~Called("extract_frames_interval")
    /\ Decided => result = SceneRet

\* floor(D / 30) of a duration in tenths of a second.
FloorThirtieth(d) == d.tenths \div (TargetFrames * 10)

\* C2: in auto mode, when scene-based extraction succeeds with c > 50 or c < 5
\* and the probe returns a number D (0 included), the Interval Extractor is
\* invoked exactly once, with interval max(10, floor(D/30)), and its result is
\* the final result.
C2_FallbackForEveryKnownDuration ==
  ( /\ AutoSceneReturned
    /\ Success(SceneRet)
    /\ (SceneRet.frame_count > MaxSceneFrames \/ SceneRet.frame_count < MinSceneFrames)
    /\ Decided
    /\ duration.kind = "float" ) =>
    /\ Cardinality(CallsOf("extract_frames_interval")) = 1
    /\ FirstCall("extract_frames_interval").arg = Max(MinInterval, FloorThirtieth(duration))
    /\ result = FirstCall("extract_frames_interval").ret

\* C3: in auto mode, a scene-based result with 5 <= c <= 50 is the final result
\* unchanged; neither the Duration Probe nor the Interval Extractor is invoked.
C3_InBandSceneResultAccepted ==
  ( /\ AutoSceneReturned
    /\ Success(SceneRet)
    /\ SceneRet.frame_count >= MinSceneFrames
    /\ SceneRet.frame_count <= MaxSceneFrames ) =>
    /\ ~Called("get_video_duration")
    /\ ~Called("extract_frames_interval")
    /\ pc # "probe" /\ pc # "fallback"
    /\ result = SceneRet
    /\ Finished => (exitCode = 0 /\ stdout = <<Json(SceneRet)>>)

C3_Witness ==
  /\ AutoSceneReturned
  /\ Finished
  /\ Success(SceneRet)
  /\ SceneRet.frame_count = MaxSceneFrames
  /\ stdout = <<Json(SceneRet)>>

\* C4: in auto mode, when scene-based extraction succeeds with c > 50 or c < 5
\* and the probe returns unknown, the Interval Extractor is not invoked and the
\* final result is the scene-based result unchanged.
C4_UnknownDurationKeepsSceneResult ==
  ( /\ AutoSceneReturned
    /\ Success(SceneRet)
    /\ (SceneRet.frame_count > MaxSceneFrames \/ SceneRet.frame_count < MinSceneFrames)
    /\ Called("get_video_duration")
    /\ FirstCall("get_video_duration").ret = None ) =>
    /\ ~Called("extract_frames_interval")
    /\ pc # "fallback"
    /\ result = SceneRet
    /\ Finished => (exitCode = 0 /\ stdout = <<Json(SceneRet)>>)

C4_Witness ==
  /\ AutoSceneReturned
  /\ Finished
  /\ Success(SceneRet)
  /\ SceneRet.frame_count > MaxSceneFrames
  /\ Called("get_video_duration")
  /\ FirstCall("get_video_duration").ret = None
  /\ stdout = <<Json(SceneRet)>>

\* C5: every success result of the extraction path (either extractor, and the
\* result main prints) carries at least one frame.
C5_SuccessIsNeverEmpty ==
  /\ \A i \in CallsOf("extract_frames_scene") \cup CallsOf("extract_frames_interval") :
       Success(calls[i].ret) => (calls[i].ret.frame_count >= 1 /\ calls[i].ret.frames # <<>>)
  /\ (script = "extract" /\ Finished /\ exitCode = 0) =>
       \A i \in 1..Len(stdout) : stdout[i].obj.frame_count >= 1

\* C6: in explicit interval mode only a positive integer reaches the Interval
\* Extractor and the engine; a non-positive or non-numeric interval is rejected.
C6_OnlyPositiveIntervalReachesEngine ==
  (script = "extract" /\ mode # Auto /\ mode # <<>>) =>
    ( (Called("extract_frames_interval") \/ Called("engine")) =>
        (ParseInt(mode).ok /\ ParseInt(mode).val > 0) )

\* A run of the sampler that has been through analyze_frames with at least one
\* matching frame in an existing directory.
Listing == SortedGlob(files, "frame_")
SamplerRan ==
  /\ script = "analyze"
  /\ Called("analyze_frames")
  /\ Decided
  /\ dirExists
  /\ Len(Listing) >= 1
Paths(frames) == [i \in 1..Len(frames) |-> frames[i].path]

\* The frames at the evenly spaced indices 0, step, ..., (k-1)*step of the listing.
EvenlySpaced(frames, k) ==
  LET n == Len(Listing)
      step == n \div k
  IN /\ Len(frames) = k
     /\ step >= 1
     /\ \A j \in 1..k : (j - 1) * step < n /\ frames[j].path = Listing[(j - 1) * step + 1]
     /\ \A i, j \in 1..k : i < j => PathLess(frames[i].path, frames[j].path)

\* C7, as claimed: for every n > k, k <= 0 included, with all selected frames
\* readable, sampling returns exactly k frames, those at the indices
\* 0, step, ..., (k-1)*step of the sorted listing, step = floor(n/k).
C7_ExactlyKFramesForEveryK ==
  (SamplerRan /\ Finished /\ Len(Listing) > sample_count /\ unreadable = {}) =>
    /\ exitCode = 0
    /\ Success(result)
    /\ Len(result.frames) = sample_count
    /\ sample_count >= 1 => EvenlySpaced(result.frames, sample_count)

\* C7, amended: for n > k >= 1 with all selected frames readable, sampling
\* returns exactly k frames, at the indices 0, step, ..., (k-1)*step, strictly
\* increasing and all < n; for k < 0 nothing is selected and the sampler fails
\* with 'Failed to process frames'; for k = 0 it raises ZeroDivisionError.
C7_EvenlySpacedSample ==
  (SamplerRan /\ Finished /\ Len(Listing) > sample_count /\ unreadable = {}) =>
    /\ sample_count >= 1 =>
         /\ exitCode = 0
         /\ stdout = <<Json(result)>>
         /\ result.total_frames = Len(Listing)
         /\ result.analyzed_frames = sample_count
         /\ EvenlySpaced(result.frames, sample_count)
    /\ sample_count < 0 =>
         /\ exitCode = 1
         /\ selected = <<>>
         /\ Failure(result) /\ result.error = "Failed to process frames"
    /\ sample_count = 0 =>
         /\ exitCode = 1
         /\ stdout = <<>>
         /\ stderr = <<Traceback("ZeroDivisionError")>>

\* The spec's example: 17 frames sampled down to the default 8.
C7_Witness ==
  /\ SamplerRan
  /\ Finished
  /\ unreadable = {}
  /\ Len(Listing) = MidFrames
  /\ sample_count = DefaultSampleCount
  /\ Success(result)
  /\ Len(result.frames) = DefaultSampleCount

\* C8: for every n >= 1 and k >= n, with all frames readable, sampling returns
\* all n matching frames in lexicographic order, total_frames = analyzed_frames = n.
C8_AllFramesWhenFewerThanTarget ==
  (SamplerRan /\ Finished /\ Len(Listing) <= sample_count /\ unreadable = {}) =>
    /\ exitCode = 0
    /\ stdout = <<Json(result)>>
    /\ result.total_frames = Cardinality({f \in files : f.prefix = "frame_"})
    /\ result.analyzed_frames = result.total_frames
    /\ Len(result.frames) = result.total_frames
    /\ {result.frames[i].path : i \in 1..Len(result.frames)} = {f \in files : f.prefix = "frame_"}
    /\ \A i, j \in 1..Len(result.frames) :
         i < j => LexLess(result.frames[i].path.digits, result.frames[j].path.digits)

C8_Witness ==
  /\ SamplerRan
  /\ Finished
  /\ unreadable = {}
  /\ Len(Listing) = SmallFrames
  /\ sample_count = DefaultSampleCount
  /\ Success(result)
  /\ result.analyzed_frames = SmallFrames

\* The sampler got as far as reading the selected frames.
SamplerRead == SamplerRan /\ ~(Len(Listing) > sample_count /\ sample_count = 0)
Readable(f) == f \notin unreadable

\* C9: an unreadable selected frame is skipped: the frames returned are the
\* selected frames that could be read, in selection order, so
\* analyzed_frames <= number selected <= total_frames; the sampler fails with
\* 'Failed to process frames' exactly when every selected frame fails to read.
C9_UnreadableFramesSkipped ==
  SamplerRead =>
    /\ Success(result) =>
         /\ Paths(result.frames) = SelectSeq(selected, Readable)
         /\ result.analyzed_frames = Len(result.frames)
         /\ result.analyzed_frames <= Len(selected)
         /\ Len(selected) <= result.total_frames
         /\ result.total_frames = Len(Listing)
    /\ (Failure(result) /\ result.error = "Failed to process frames")
         <=> (\A i \in 1..Len(selected) : selected[i] \in unreadable)
    /\ Success(result) \/ Failure(result)

C9_Witness ==
  /\ SamplerRead
  /\ Finished
  /\ Success(result)
  /\ Cardinality(unreadable) = MaxUnreadable
  /\ selected[1] \in unreadable
  /\ result.analyzed_frames < Len(selected)
  /\ result.analyzed_frames >= 1

\* C10: every run of either script ends with exit status 0 and a JSON success
\* object on standard output, or with exit status 1 and a JSON error object
\* carrying 'error' and 'details' on standard error.
C10_ExitContract ==
  Finished =>
    \/ /\ exitCode = 0
       /\ Len(stdout) = 1
       /\ stdout[1].kind = "json"
       /\ Success(stdout[1].obj)
    \/ /\ exitCode = 1
       /\ \E i \in 1..Len(stderr) :
            stderr[i].kind = "json" /\ {"error", "details"} \subseteq DOMAIN stderr[i].obj

\* A run of the sampler in which analyze_frames has returned or raised.
AnalyzeReturned == script = "analyze" /\ Called("analyze_frames") /\ Decided
ErrorIs(res, category) == Failure(res) /\ res.error = category
\* analyze_frames got as far as selecting frames, and every selected frame
\* failed to read.
AllSelectedUnreadable ==
  /\ dirExists
  /\ Len(Listing) >= 1
  /\ ~(Len(Listing) > sample_count /\ sample_count = 0)
  /\ \A i \in 1..Len(selected) : selected[i] \in unreadable

\* C11: the sampler returns 'Frames directory not found' exactly when the
\* directory does not exist, 'No frames found' exactly when it exists and holds
\* no frame_*.jpg file, and 'Failed to process frames' exactly when every
\* selected frame fails to read: each category in its own case and no other.
C11_DistinctSamplerFailures ==
  AnalyzeReturned =>
    /\ ErrorIs(result, "Frames directory not found") <=> ~dirExists
    /\ ErrorIs(result, "No frames found") <=> (dirExists /\ Len(Listing) = 0)
    /\ ErrorIs(result, "Failed to process frames") <=> AllSelectedUnreadable
    /\ Failure(result) =>
         result.error \in {"Frames directory not found", "No frames found",
                           "Failed to process frames"}

\* The directory exists and holds scene_*.jpg files only: 'No frames found'.
C11_Witness ==
  /\ AnalyzeReturned
  /\ Finished
  /\ dirExists
  /\ files # {}
  /\ ErrorIs(result, "No frames found")
  /\ exitCode = 1

\* The running script is an extraction whose video path does not exist.
MissingVideoRun ==
  script = "extract" /\ video_path # <<>> /\ video_path \notin ExistingPaths

\* C12: an extraction call against a nonexistent video path returns the input
\* error 'Video file not found' at once, in every mode: no engine lookup, no
\* scene extraction, no duration probe, no interval extraction, and the output
\* directory is left as it was (not created).
C12_MissingVideoRejected ==
  [][ MissingVideoRun' =>
        /\ dirExists' = dirExists
        /\ files' = files
        /\ calls' = <<>>
        /\ pc' = "done"
        /\ exitCode' = 1
        /\ stdout' = <<>>
        /\ Len(stderr') = 1
        /\ stderr'[1].kind = "json"
        /\ stderr'[1].obj.error = "Video file not found" ]_vars

\* A missing video in auto mode, the output directory still absent afterwards.
C12_Witness ==
  /\ MissingVideoRun
  /\ mode = Auto
  /\ Finished
  /\ ~dirExists
  /\ calls = <<>>
  /\ exitCode = 1

\* The log positions of this run's extractor calls that returned success; the
\* engine run of the call at position i is logged at position i + 2.
SuccessfulExtractions ==
  {i \in CallsOf("extract_frames_scene") \cup CallsOf("extract_frames_interval") :
     Success(calls[i].ret)}
\* What the call logged at position i returns against an empty directory.
OnEmptyDirectory(i) ==
  IF calls[i].fn = "extract_frames_scene"
  THEN extract_frames_scene({}, calls[i].arg, calls[i + 2].ret).ret
  ELSE extract_frames_interval({}, calls[i].arg, calls[i + 2].ret).ret

\* C13: whatever extraction calls went before into the same output directory,
\* the FrameSet (frame_count and frames) a successful extraction call returns
\* holds only the frames that call wrote: it equals the FrameSet the same call
\* returns against an empty output directory.
C13_ExtractionIndependentOfPriorCalls ==
  \A i \in SuccessfulExtractions :
    /\ calls[i].ret.frame_count = calls[i + 2].ret.wrote
    /\ calls[i].ret.frame_count = OnEmptyDirectory(i).frame_count
    /\ calls[i].ret.frames = OnEmptyDirectory(i).frames

\* C14: after an auto-mode extraction into an initially empty output directory
\* that ended with the scene-based result accepted or kept, a sampler call on
\* that directory returns 'No frames found' for every sample count; the sampler
\* succeeds on the output of an extraction run into an empty directory only if
\* that run ended with interval extraction.
C14_SamplerNeedsIntervalOutput ==
  AnalyzeReturned =>
    /\ prev = "scene" =>
         /\ ErrorIs(result, "No frames found")
         /\ \A f \in files : f.prefix = "scene_"
         /\ Finished => exitCode = 1
    /\ (prev \in {"scene", "interval", "neither"} /\ Success(result)) => prev = "interval"

\* The sampler, with the default sample count, after an accepted scene-based
\* extraction that left scene_*.jpg files.
C14_Witness ==
  /\ AnalyzeReturned
  /\ Finished
  /\ prev = "scene"
  /\ Cardinality(files) >= MinSceneFrames
  /\ sample_count = DefaultSampleCount
  /\ ErrorIs(result, "No frames found")

====
